---- MODULE Spec2Model ----
(***************************************************************************)
(* A model of commitpulse: GitAnalyzer (analyzer.py) and the publish path  *)
(* of main (main.py).                                                      *)
(*                                                                         *)
(* Text is a sequence of tokens.  The tokens "\n", "\t", " ", ",", "<" and  *)
(* ">" are the single characters the code splits and strips on; every      *)
(* other token is a run of characters that holds none of them.  So         *)
(* str.strip, str.split and the `in` substring tests are modelled on the   *)
(* token sequence exactly as Python runs them on the characters.           *)
(***************************************************************************)
EXTENDS Integers, Sequences, FiniteSets, TLC

(* ------------------------------------------------------------------ *)
(* Bounds                                                              *)
(* ------------------------------------------------------------------ *)
\* the number of lines of a git output drawn in an initial state
MaxLines == 3

(* ------------------------------------------------------------------ *)
(* Strings                                                             *)
(* ------------------------------------------------------------------ *)
NL == "\n"
TAB == "\t"
SP == " "

\* the characters str.strip() removes
IsSpace(t) == t \in {SP, TAB, NL}

RECURSIVE LStrip(_)
LStrip(s) == IF s = <<>> \/ ~IsSpace(Head(s)) THEN s ELSE LStrip(Tail(s))

RECURSIVE RStrip(_)
RStrip(s) ==
  IF s = <<>> \/ ~IsSpace(s[Len(s)]) THEN s ELSE RStrip(SubSeq(s, 1, Len(s) - 1))

\* str.strip()
Strip(s) == RStrip(LStrip(s))

RECURSIVE SplitFrom(_, _, _, _)
SplitFrom(s, sep, cur, acc) ==
  IF s = <<>> THEN Append(acc, cur)
  ELSE IF Head(s) = sep THEN SplitFrom(Tail(s), sep, <<>>, Append(acc, cur))
  ELSE SplitFrom(Tail(s), sep, Append(cur, Head(s)), acc)

\* str.split(sep): the pieces between the separators; "".split(sep) is [""]
Split(s, sep) == SplitFrom(s, sep, <<>>, <<>>)

\* x in s, for a one-character x
Contains(s, x) == \E i \in 1..Len(s) : s[i] = x

RECURSIVE Join(_, _)
\* sep.join(lines)
Join(lines, sep) ==
  IF lines = <<>> THEN <<>>
  ELSE IF Len(lines) = 1 THEN lines[1]
  ELSE lines[1] \o <<sep>> \o Join(Tail(lines), sep)

\* the sequences over S of length at most n
SeqUpTo(S, n) == UNION {[1..k -> S] : k \in 0..n}

(* ------------------------------------------------------------------ *)
(* Counter                                                             *)
(* ------------------------------------------------------------------ *)
\* collections.Counter: a dict keeps its keys in insertion order
EmptyCounter == [order |-> <<>>, n |-> <<>>]

CounterGet(c, k) ==
  IF \E i \in 1..Len(c.order) : c.order[i] = k
  THEN c.n[CHOOSE i \in 1..Len(c.order) : c.order[i] = k] ELSE 0

\* c[k] += d
CounterAdd(c, k, d) ==
  IF \E i \in 1..Len(c.order) : c.order[i] = k
  THEN LET i == CHOOSE j \in 1..Len(c.order) : c.order[j] = k
       IN [c EXCEPT !.n[i] = @ + d]
  ELSE [order |-> Append(c.order, k), n |-> Append(c.n, d)]

RECURSIVE SumSeq(_)
SumSeq(s) == IF s = <<>> THEN 0 ELSE Head(s) + SumSeq(Tail(s))

\* sum(c.values())
CounterTotal(c) == SumSeq(c.n)

(* ------------------------------------------------------------------ *)
(* The history query                                                   *)
(* ------------------------------------------------------------------ *)
\* what _run_git returns when git fails
None == <<"<None>">>

\* `if x:` for the return value of _run_git: neither None nor ""
Truthy(x) == x # None /\ x # <<>>

\* _run_git: the stripped standard output, or None when git fails.
\* proc is what the git process did: [rc, stdout]
RunGit(proc) == IF proc.rc # 0 THEN None ELSE Strip(proc.stdout)

(* ------------------------------------------------------------------ *)
(* Commit timestamps                                                   *)
(* ------------------------------------------------------------------ *)
\* datetime.fromisoformat on the timestamp strings of the model: the local
\* calendar day (dayno counts days from 2024-03-01), the local wall-clock
\* time and the UTC offset in minutes.  Any other string is a ValueError.
IsoTable ==
  ("2024-03-01T09:00:00+00:00" :>
     [date |-> "2024-03-01", dayno |-> 0, hour |-> 9, minute |-> 0, second |-> 0, offset |-> 0]) @@
  ("2024-03-01T09:00:02+00:00" :>
     [date |-> "2024-03-01", dayno |-> 0, hour |-> 9, minute |-> 0, second |-> 2, offset |-> 0]) @@
  ("2024-03-01T09:03:00+00:00" :>
     [date |-> "2024-03-01", dayno |-> 0, hour |-> 9, minute |-> 3, second |-> 0, offset |-> 0]) @@
  ("2024-03-01T10:30:00+00:00" :>
     [date |-> "2024-03-01", dayno |-> 0, hour |-> 10, minute |-> 30, second |-> 0, offset |-> 0]) @@
  ("2024-03-01T11:00:00+00:00" :>
     [date |-> "2024-03-01", dayno |-> 0, hour |-> 11, minute |-> 0, second |-> 0, offset |-> 0]) @@
  ("2024-03-01T12:00:00+00:00" :>
     [date |-> "2024-03-01", dayno |-> 0, hour |-> 12, minute |-> 0, second |-> 0, offset |-> 0]) @@
  ("2024-03-02T00:30:00+01:00" :>
     [date |-> "2024-03-02", dayno |-> 1, hour |-> 0, minute |-> 30, second |-> 0, offset |-> 60])

\* the lines `git log --all --format=%aI` prints in the model: the timestamps
\* above, a blank line, and a line fromisoformat rejects (an hour of 25)
DateLines ==
  {<<t>> : t \in DOMAIN IsoTable} \cup {<<>>, <<"2024-03-01T25:00:00+00:00">>}

\* datetime.fromisoformat(d): [ok, dt]; ok is FALSE for a ValueError
FromIsoFormat(d) ==
  IF Len(d) = 1 /\ d[1] \in DOMAIN IsoTable
  THEN [ok |-> TRUE, dt |-> IsoTable[d[1]]]
  ELSE [ok |-> FALSE, dt |-> [date |-> "", dayno |-> 0, hour |-> 0, minute |-> 0,
                              second |-> 0, offset |-> 0]]

\* the instant of an aware datetime, in seconds after 2024-03-01T00:00:00Z:
\* aware datetimes are ordered and subtracted by their instants
Instant(dt) ==
  dt.dayno * 86400 + dt.hour * 3600 + dt.minute * 60 + dt.second - dt.offset * 60

RECURSIVE CountDates(_, _)
\* a loop that ends at the first line fromisoformat rejects
CountDatesUntilBadLine(dates, acc) ==
  IF dates = <<>> THEN acc
  ELSE LET d == Head(dates)
           p == FromIsoFormat(d)
       IN IF d = <<>> THEN CountDates(Tail(dates), acc)
          ELSE IF ~p.ok THEN acc
          ELSE CountDates(Tail(dates),
                 [heatmap_data |-> CounterAdd(acc.heatmap_data, p.dt.date, 1),
                  hourly_distribution |-> CounterAdd(acc.hourly_distribution, p.dt.hour, 1)])

\* the loop over the date lines: the heatmap and hourly_distribution Counters
CountDates(dates, acc) ==
  IF dates = <<>> THEN acc
  ELSE LET d == Head(dates)
           p == FromIsoFormat(d)
       IN IF d = <<>> THEN CountDates(Tail(dates), acc)
          ELSE IF ~p.ok THEN CountDates(Tail(dates), acc)
          ELSE CountDates(Tail(dates),
                 [heatmap_data |-> CounterAdd(acc.heatmap_data, p.dt.date, 1),
                  hourly_distribution |-> CounterAdd(acc.hourly_distribution, p.dt.hour, 1)])

\* heatmap_data and hourly_distribution of the text the history query returned
DateCounters(commit_dates_raw) ==
  IF Truthy(commit_dates_raw)
  THEN CountDates(Split(commit_dates_raw, NL),
                  [heatmap_data |-> EmptyCounter, hourly_distribution |-> EmptyCounter])
  ELSE [heatmap_data |-> EmptyCounter, hourly_distribution |-> EmptyCounter]

RECURSIVE MinOf(_)
MinOf(s) ==
  IF Len(s) = 1 THEN s[1]
  ELSE LET m == MinOf(Tail(s)) IN IF Head(s) <= m THEN Head(s) ELSE m

RECURSIVE MaxOf(_)
MaxOf(s) ==
  IF Len(s) = 1 THEN s[1]
  ELSE LET m == MaxOf(Tail(s)) IN IF Head(s) >= m THEN Head(s) ELSE m

\* the day numbers of the keys of heatmap_data, in the keys' order: ISO date
\* strings sort as their days do
DayNo(date) == IF date = "2024-03-01" THEN 0 ELSE 1
DateOfDay(n) == IF n = 0 THEN "2024-03-01" ELSE "2024-03-02"

\* first_date: sorted(heatmap_data.keys())[0], or "N/A"
FirstDate(heatmap_data) ==
  IF heatmap_data.order = <<>> THEN "N/A"
  ELSE DateOfDay(MinOf([i \in 1..Len(heatmap_data.order) |-> DayNo(heatmap_data.order[i])]))

\* last_date: sorted(heatmap_data.keys())[-1], or "N/A"
LastDate(heatmap_data) ==
  IF heatmap_data.order = <<>> THEN "N/A"
  ELSE DateOfDay(MaxOf([i \in 1..Len(heatmap_data.order) |-> DayNo(heatmap_data.order[i])]))

(* ------------------------------------------------------------------ *)
(* Engineering hours                                                   *)
(* ------------------------------------------------------------------ *)
\* session_start_buffer, 0.5 hour, in seconds
SessionStartBuffer == 1800
\* the session threshold of `diff < 2` hours, in seconds
SessionGap == 7200

RECURSIVE ParseTimestamps(_)
\* all_timestamps before the sort: every line fromisoformat accepts, in order
ParseTimestamps(dates) ==
  IF dates = <<>> THEN <<>>
  ELSE LET d == Head(dates)
           p == FromIsoFormat(d)
       IN IF d = <<>> \/ ~p.ok THEN ParseTimestamps(Tail(dates))
          ELSE <<p.dt>> \o ParseTimestamps(Tail(dates))

RECURSIVE InsertByInstant(_, _)
\* x placed after every element that is not later than it
InsertByInstant(sorted, x) ==
  IF sorted = <<>> THEN <<x>>
  ELSE IF Instant(Head(sorted)) <= Instant(x)
       THEN <<Head(sorted)>> \o InsertByInstant(Tail(sorted), x)
       ELSE <<x>> \o sorted

RECURSIVE SortedByInstant(_)
SortedByInstant(ts) ==
  IF ts = <<>> THEN <<>>
  ELSE InsertByInstant(SortedByInstant(SubSeq(ts, 1, Len(ts) - 1)), ts[Len(ts)])

\* all_timestamps.sort(): ascending by instant, stable
SortTimestamps(ts) == SortedByInstant(ts)

\* a threshold that takes a gap of exactly 2 hours into the session
SessionStepInclusive(diff) == IF diff <= SessionGap THEN diff ELSE SessionStartBuffer

\* what one consecutive pair adds: the gap, or the buffer for a new session
SessionStep(diff) == IF diff < SessionGap THEN diff ELSE SessionStartBuffer

RECURSIVE SumSessions(_, _)
\* the loop `for i in range(1, len(all_timestamps))` from index i on
SumSessions(ts, i) ==
  IF i > Len(ts) THEN 0
  ELSE SessionStep(Instant(ts[i]) - Instant(ts[i - 1])) + SumSessions(ts, i + 1)

\* estimated_hours before rounding, in seconds
EstimatedSeconds(commit_dates_raw) ==
  IF ~Truthy(commit_dates_raw) THEN 0
  ELSE LET all_timestamps == SortTimestamps(ParseTimestamps(Split(commit_dates_raw, NL)))
       IN IF all_timestamps = <<>> THEN 0
          ELSE SessionStartBuffer + SumSessions(all_timestamps, 2)

(* ------------------------------------------------------------------ *)
(* Engineering hours as the code computes them: binary64                *)
(* ------------------------------------------------------------------ *)
(* estimated_hours is a Python float.  Every float of this computation is *)
(* at least 1/3600 (> 2^-12) or is 0, and is below 16, so it is a         *)
(* multiple of 2^-64 below 2^68 * 2^-64: it is held exactly as the        *)
(* integer x * 2^64, in four limbs of 17 bits, l3 the most significant.   *)
(* Each operation is the exact one followed by the rounding of IEEE 754   *)
(* to 53 significant bits, to nearest, ties to even.                      *)
Limb == 2 ^ 17

\* the limbs of a0 + a1 * Limb + a2 * Limb^2 + a3 * Limb^3; l3 takes the rest
FxCarry(a0, a1, a2, a3) ==
  LET b1 == a1 + (a0 \div Limb)
      b2 == a2 + (b1 \div Limb)
  IN [l0 |-> a0 % Limb, l1 |-> b1 % Limb, l2 |-> b2 % Limb, l3 |-> a3 + (b2 \div Limb)]

FxZero == [l0 |-> 0, l1 |-> 0, l2 |-> 0, l3 |-> 0]

\* 0.5 is 2^63 * 2^-64
FxHalf == [l0 |-> 0, l1 |-> 0, l2 |-> 0, l3 |-> 2 ^ 12]

RECURSIVE BitLen(_)
\* the number of bits of n
BitLen(n) == IF n = 0 THEN 0 ELSE 1 + BitLen(n \div 2)

\* the number of significant bits of x
FxBits(x) ==
  IF x.l3 > 0 THEN 51 + BitLen(x.l3)
  ELSE IF x.l2 > 0 THEN 34 + BitLen(x.l2)
  ELSE IF x.l1 > 0 THEN 17 + BitLen(x.l1)
  ELSE BitLen(x.l0)

\* the binary64 nearest to x + r / den (0 <= r < den), ties to even: the
\* bits below the 53 significant ones are rounded away.  They are at most
\* 15 bits, all in l0
FxRound(x, r, den) ==
  LET d == IF FxBits(x) > 53 THEN FxBits(x) - 53 ELSE 0
      unit == 2 ^ d
      low == x.l0 % unit
      odd == (x.l0 \div unit) % 2 = 1
      up == IF d = 0
            THEN 2 * r > den \/ (2 * r = den /\ odd)
            ELSE \/ 2 * low > unit
                 \/ 2 * low = unit /\ r > 0
                 \/ 2 * low = unit /\ r = 0 /\ odd
  IN FxCarry(x.l0 - low + (IF up THEN unit ELSE 0), x.l1, x.l2, x.l3)

\* float addition
FloatAdd(x, y) ==
  FxRound(FxCarry(x.l0 + y.l0, x.l1 + y.l1, x.l2 + y.l2, x.l3 + y.l3), 0, 1)

\* the integer part and the remainder of s * 2^64 / 3600, by long division
\* (s * 2^64 is s * 2^13 in the place of l3)
FxHours(s) ==
  LET a3 == s * (2 ^ 13)
      r3 == a3 % 3600
      r2 == (r3 * Limb) % 3600
      r1 == (r2 * Limb) % 3600
  IN [q |-> [l0 |-> (r1 * Limb) \div 3600, l1 |-> (r2 * Limb) \div 3600,
             l2 |-> (r3 * Limb) \div 3600, l3 |-> a3 \div 3600],
      r |-> (r1 * Limb) % 3600]

\* diff < 2 for diff = total_seconds() / 3600: the quotient is below 2^65.
\* Rounding to nearest does not move a quotient across 2
FloatDiffBelow2(s) == FxHours(s).q.l3 < 2 ^ 14

\* the float total_seconds() / 3600, for a difference below 2 hours
FloatDiff(s) == IF s = 0 THEN FxZero ELSE FxRound(FxHours(s).q, FxHours(s).r, 3600)

RECURSIVE FloatSessions(_, _, _)
\* the loop `for i in range(1, len(all_timestamps))` from index i on, on
\* the float estimated_hours
FloatSessions(ts, i, estimated_hours) ==
  IF i > Len(ts) THEN estimated_hours
  ELSE LET s == Instant(ts[i]) - Instant(ts[i - 1])
       IN FloatSessions(ts, i + 1,
            FloatAdd(estimated_hours,
                     IF FloatDiffBelow2(s) THEN FloatDiff(s) ELSE FxHalf))

\* estimated_hours before round(), as a float
EstimatedHours(commit_dates_raw) ==
  IF ~Truthy(commit_dates_raw) THEN FxZero
  ELSE LET all_timestamps == SortTimestamps(ParseTimestamps(Split(commit_dates_raw, NL)))
       IN IF all_timestamps = <<>> THEN FxZero
          ELSE FloatSessions(all_timestamps, 2, FloatAdd(FxZero, FxHalf))

\* round(x, 1), in tenths: the decimal nearest to the float's exact value,
\* ties to even.  10 * x * 2^64 is split at bit 64, which is bit 13 of l3
RoundTenths(x) ==
  LET t == FxCarry(10 * x.l0, 10 * x.l1, 10 * x.l2, 10 * x.l3)
      whole == t.l3 \div (2 ^ 13)
      frac == t.l3 % (2 ^ 13)
      rest == t.l0 > 0 \/ t.l1 > 0 \/ t.l2 > 0
      up == \/ frac > 2 ^ 12
            \/ frac = 2 ^ 12 /\ rest
            \/ frac = 2 ^ 12 /\ ~rest /\ whole % 2 = 1
  IN whole + (IF up THEN 1 ELSE 0)

(* ------------------------------------------------------------------ *)
(* Avatars                                                             *)
(* ------------------------------------------------------------------ *)
\* str.lower() of one token
LowerToken(t) ==
  CASE t = "A@x.com" -> "a@x.com"
    [] t = "Package-Lock.json" -> "package-lock.json"
    [] t = "Dockerfile" -> "dockerfile"
    [] t = "Cargo.lock" -> "cargo.lock"
    [] t = "index.JS" -> "index.js"
    [] t = ".JS" -> ".js"
    [] OTHER -> t

\* email.lower()
Lower(s) == [i \in 1..Len(s) |-> LowerToken(s[i])]

\* the Gravatar URL: it is a function of the md5 of the lowercased email,
\* and md5 is one-to-one on the emails of the model
Gravatar(email) == <<"gravatar", Lower(email)>>

\* what the GitHub search does for one request: the request fails (network,
\* rate limit, bad JSON), finds no user, or finds a user with an avatar
GithubAvatars == {<<"github", "u1">>}
SearchError == <<"error">>
SearchEmpty == <<"total_count", "0">>
Responses == {SearchError, SearchEmpty} \cup GithubAvatars

\* the avatar_url the lookup of _get_github_avatar ends with
LookupAvatar(email, response) ==
  IF response \in GithubAvatars THEN response ELSE Gravatar(email)

\* _get_github_avatar on the cache: [cache, avatar, looked_up]
GetGithubAvatarMiss(cache, email, response) ==
  LET avatar_url == LookupAvatar(email, response)
  IN [cache |-> [e \in DOMAIN cache \cup {email} |->
                   IF e = email THEN avatar_url ELSE cache[e]],
      avatar |-> avatar_url, looked_up |-> TRUE]

\* a cache that keeps only what GitHub found, not the fallback
GetGithubAvatarKeepFound(cache, email, response) ==
  IF email \in DOMAIN cache
  THEN [cache |-> cache, avatar |-> cache[email], looked_up |-> FALSE]
  ELSE IF response \in GithubAvatars THEN GetGithubAvatarMiss(cache, email, response)
  ELSE [cache |-> cache, avatar |-> Gravatar(email), looked_up |-> TRUE]

\* _get_github_avatar(email), response being what the GitHub search does
GetGithubAvatarOn(cache, email, response) ==
  IF email \in DOMAIN cache
  THEN [cache |-> cache, avatar |-> cache[email], looked_up |-> FALSE]
  ELSE GetGithubAvatarMiss(cache, email, response)

(* ------------------------------------------------------------------ *)
(* Contributors                                                        *)
(* ------------------------------------------------------------------ *)
\* int() on the number strings of the model; any other string is a ValueError
IntTable ==
  ("1" :> 1) @@ ("2" :> 2) @@ ("3" :> 3) @@ ("4" :> 4) @@ ("5" :> 5) @@
  ("6" :> 6) @@ ("7" :> 7) @@ ("10" :> 10)

\* int(s): [ok, value]; ok is FALSE for a ValueError
ParseInt(s) ==
  IF Len(s) = 1 /\ s[1] \in DOMAIN IntTable
  THEN [ok |-> TRUE, value |-> IntTable[s[1]]]
  ELSE [ok |-> FALSE, value |-> 0]

\* the lines `git shortlog -sne --all` prints in the model
ShortlogLines ==
  { <<"3", TAB, "Alice", SP, "<", "a@x.com", ">">>,
    <<"5", TAB, "Bob", SP, "<", "b@x.com", ">">>,
    <<SP, SP, "3", TAB, "Dave">>,
    <<>>,
    <<"Eve", SP, "<", "e@x.com", ">">>,
    <<"abc", TAB, "Mallory", SP, "<", "m@x.com", ">">> }

\* name of "name <email>"
NameOf(name_email) ==
  IF Contains(name_email, "<") THEN Strip(Split(name_email, "<")[1]) ELSE name_email

\* email of "name <email>", "" without a "<"
EmailOf(name_email) ==
  IF Contains(name_email, "<")
  THEN Strip(Split(Split(name_email, "<")[2], ">")[1]) ELSE <<>>

RECURSIVE ParseShortlog(_, _, _, _)
\* the loop over the shortlog lines, from line k on.  acc is [raised,
\* contributors, cache, lookups]; responses[k] is what the GitHub search does
\* when line k calls _get_github_avatar.  int() of the count is outside any
\* try: a ValueError leaves get_stats.
ParseShortlog(lines, k, responses, acc) ==
  IF k > Len(lines) \/ acc.raised THEN acc
  ELSE LET line == Strip(lines[k])
           parts == Split(line, TAB)
           count == ParseInt(Strip(parts[1]))
           name_email == Strip(parts[2])
           email == EmailOf(name_email)
           got == GetGithubAvatarOn(acc.cache, email, responses[k])
       IN IF line = <<>> \/ Len(parts) # 2
          THEN ParseShortlog(lines, k + 1, responses, acc)
          ELSE IF ~count.ok
          THEN [acc EXCEPT !.raised = TRUE]
          ELSE ParseShortlog(lines, k + 1, responses,
                 [raised |-> FALSE,
                  contributors |-> Append(acc.contributors,
                     [name |-> NameOf(name_email), email |-> email,
                      commits |-> count.value, avatar |-> got.avatar]),
                  cache |-> got.cache,
                  lookups |-> IF got.looked_up THEN Append(acc.lookups, email)
                              ELSE acc.lookups])

\* the contributors of the shortlog text, and the avatar cache after them
Contributors(shortlog, responses, cache) ==
  IF Truthy(shortlog)
  THEN ParseShortlog(Split(shortlog, NL), 1, responses,
         [raised |-> FALSE, contributors |-> <<>>, cache |-> cache, lookups |-> <<>>])
  ELSE [raised |-> FALSE, contributors |-> <<>>, cache |-> cache, lookups |-> <<>>]

\* the lines of the shortlog text that reach _get_github_avatar unless int()
\* raises first: those of two tab-separated fields
AvatarCalls(shortlog) ==
  IF Truthy(shortlog)
  THEN {k \in 1..Len(Split(shortlog, NL)) :
          Len(Split(Strip(Split(shortlog, NL)[k]), TAB)) = 2}
  ELSE {}

RECURSIVE InsertByCommits(_, _)
\* an insertion that puts x before the elements with as many commits
InsertByCommitsFirst(sorted, x) ==
  IF sorted = <<>> THEN <<x>>
  ELSE IF Head(sorted).commits > x.commits
       THEN <<Head(sorted)>> \o InsertByCommits(Tail(sorted), x)
       ELSE <<x>> \o sorted

\* x placed after every element with at least as many commits
InsertByCommits(sorted, x) ==
  IF sorted = <<>> THEN <<x>>
  ELSE IF Head(sorted).commits >= x.commits
       THEN <<Head(sorted)>> \o InsertByCommits(Tail(sorted), x)
       ELSE <<x>> \o sorted

RECURSIVE SortedByCommits(_)
SortedByCommits(cs) ==
  IF cs = <<>> THEN <<>>
  ELSE InsertByCommits(SortedByCommits(SubSeq(cs, 1, Len(cs) - 1)), cs[Len(cs)])

\* sorted(contributors, key=commits, reverse=True): descending, and stable
\* (reverse=True keeps the order of equal elements)
SortContributors(cs) == SortedByCommits(cs)

(* ------------------------------------------------------------------ *)
(* Code churn                                                          *)
(* ------------------------------------------------------------------ *)
\* the lines `git log --all --shortstat --format=` prints in the model
ShortstatLines ==
  { <<SP, "1", SP, "file", SP, "changed", ",", SP, "10", SP, "insertions(+)", ",",
      SP, "4", SP, "deletions(-)">>,
    <<SP, "2", SP, "files", SP, "changed", ",", SP, "7", SP, "insertions(+)">>,
    <<SP, "1", SP, "file", SP, "changed", ",", SP, "3", SP, "deletions(-)">>,
    <<SP, "1", SP, "file", SP, "changed", ",", SP, "1", SP, "insertion(+)", ",",
      SP, "1", SP, "deletion(-)">>,
    <<SP, "1", SP, "file", SP, "changed", ",", SP, "x", SP, "insertions(+)", ",",
      SP, "4", SP, "deletions(-)">>,
    <<SP, "1", SP, "file", SP, "changed", ",", SP, "6", SP, "insertions(+)", ",",
      SP, "y", SP, "deletions(-)">>,
    <<>> }

\* "insertions(+)" in line
HasInsertions(line) == Contains(line, "insertions(+)")
\* "insertion" in p
HasInsertion(p) == Contains(p, "insertions(+)") \/ Contains(p, "insertion(+)")
\* "deletion" in p
HasDeletion(p) == Contains(p, "deletions(-)") \/ Contains(p, "deletion(-)")

\* int(p.strip().split(' ')[0])
LeadingInt(p) == ParseInt(Split(Strip(p), SP)[1])

RECURSIVE ChurnParts(_, _)
\* the loop over the comma-separated parts of one line, inside the try: a
\* ValueError ends the line and keeps what the earlier parts added
ChurnParts(pts, acc) ==
  IF pts = <<>> THEN acc
  ELSE LET p == Head(pts)
           n == LeadingInt(p)
       IN IF HasInsertion(p) /\ ~n.ok THEN acc
          ELSE LET a == IF HasInsertion(p)
                        THEN [acc EXCEPT !.lines_added = @ + n.value] ELSE acc
               IN IF HasDeletion(p) /\ ~n.ok THEN a
                  ELSE ChurnParts(Tail(pts),
                         IF HasDeletion(p)
                         THEN [a EXCEPT !.lines_deleted = @ + n.value] ELSE a)

RECURSIVE ChurnLines(_, _)
ChurnLines(lines, acc) ==
  IF lines = <<>> THEN acc
  ELSE LET line == Strip(Head(lines))
       IN IF line = <<>> \/ ~HasInsertions(line) THEN ChurnLines(Tail(lines), acc)
          ELSE ChurnLines(Tail(lines), ChurnParts(Split(line, ","), acc))

\* lines_added and lines_deleted of the shortstat text
Churn(shortstat_raw) ==
  IF Truthy(shortstat_raw)
  THEN ChurnLines(Split(shortstat_raw, NL), [lines_added |-> 0, lines_deleted |-> 0])
  ELSE [lines_added |-> 0, lines_deleted |-> 0]

(* ------------------------------------------------------------------ *)
(* Languages                                                           *)
(* ------------------------------------------------------------------ *)
LANG_MAP ==
  (".py" :> "Python") @@ (".js" :> "JavaScript") @@ (".ts" :> "TypeScript") @@
  (".tsx" :> "React/TS") @@ (".jsx" :> "React/JS") @@ (".html" :> "HTML") @@
  (".css" :> "CSS") @@ (".go" :> "Go") @@ (".rs" :> "Rust") @@ (".cpp" :> "C++") @@
  (".c" :> "C") @@ (".h" :> "C/C++") @@ (".java" :> "Java") @@ (".rb" :> "Ruby") @@
  (".php" :> "PHP") @@ (".cs" :> "C#") @@ (".swift" :> "Swift") @@ (".kt" :> "Kotlin") @@
  (".m" :> "Obj-C") @@ (".sql" :> "SQL") @@ (".sh" :> "Shell") @@ (".bat" :> "Batch") @@
  (".ps1" :> "PowerShell") @@ (".dart" :> "Dart") @@ (".lua" :> "Lua") @@
  (".scala" :> "Scala") @@ (".pl" :> "Perl") @@ (".r" :> "R") @@ (".jl" :> "Julia") @@
  (".ex" :> "Elixir") @@ (".exs" :> "Elixir") @@ (".yaml" :> "YAML") @@
  (".yml" :> "YAML") @@ (".json" :> "JSON") @@ (".md" :> "Markdown") @@
  (".dockerfile" :> "Docker") @@ ("dockerfile" :> "Docker") @@ (".proto" :> "Protobuf")

IGNORE_DIRS ==
  {".git", "node_modules", "venv", ".venv", "env", "__pycache__", "build", "dist",
   "target", ".next", "out", ".svelte-kit", "vendor", "bin", "obj", ".vs", ".idea",
   ".vscode"}

IGNORE_FILES ==
  {"package-lock.json", "yarn.lock", "pnpm-lock.yaml", "composer.lock", "poetry.lock",
   "gemfile.lock", "cargo.lock", "mix.lock"}

\* os.path.splitext(f)[1] on the file names of the model
SplitExt ==
  ("main.py" :> ".py") @@ ("app.go" :> ".go") @@ ("README.md" :> ".md") @@
  ("site.css" :> ".css") @@ ("bundle.js" :> ".js") @@ ("out.js" :> ".js") @@
  ("package-lock.json" :> ".json") @@ ("Package-Lock.json" :> ".json") @@
  ("index.JS" :> ".JS") @@ ("Dockerfile" :> "") @@ ("x.ts" :> ".ts") @@
  ("big.rs" :> ".rs") @@ ("empty.html" :> ".html") @@ ("Cargo.lock" :> ".lock")

\* LANG_MAP.get(ext) or LANG_MAP.get(f.lower()), "" for None
LangOf(f) ==
  LET ext == LowerToken(SplitExt[f])
  IN IF ext \in DOMAIN LANG_MAP THEN LANG_MAP[ext]
     ELSE IF LowerToken(f) \in DOMAIN LANG_MAP THEN LANG_MAP[LowerToken(f)]
     ELSE ""

\* `if f in IGNORE_FILES`: the name as it is on disk
IsIgnoredFile(f) == f \in IGNORE_FILES

\* what one file adds to its language: os.path.getsize, or 1 when it raises
FileWeight(file) == IF file.stat_ok THEN file.size ELSE 1

RECURSIVE TallyFiles(_, _)
\* the loop over the files of one directory
TallyFiles(files, languages) ==
  IF files = <<>> THEN languages
  ELSE LET file == Head(files)
           lang == LangOf(file.name)
       IN IF IsIgnoredFile(file.name) \/ lang = ""
          THEN TallyFiles(Tail(files), languages)
          ELSE TallyFiles(Tail(files), CounterAdd(languages, lang, FileWeight(file)))

\* a pruning that knows .git only
PruneDirsGitOnly(dirs) == SelectSeq(dirs, LAMBDA d : d.name # ".git")

\* dirs[:] = [d for d in dirs if d not in IGNORE_DIRS]
PruneDirs(dirs) == SelectSeq(dirs, LAMBDA d : d.name \notin IGNORE_DIRS)

RECURSIVE WalkTree(_, _)
RECURSIVE WalkDirs(_, _)
\* os.walk, top down, from one directory: its files, then each directory
\* that is left in dirs
WalkTree(node, languages) ==
  WalkDirs(PruneDirs(node.dirs), TallyFiles(node.files, languages))

WalkDirs(dirs, languages) ==
  IF dirs = <<>> THEN languages
  ELSE WalkDirs(Tail(dirs), WalkTree(Head(dirs).node, languages))

RECURSIVE InsertByCount(_, _)
\* x placed after every item with at least its count
InsertByCount(sorted, x) ==
  IF sorted = <<>> THEN <<x>>
  ELSE IF Head(sorted).count >= x.count
       THEN <<Head(sorted)>> \o InsertByCount(Tail(sorted), x)
       ELSE <<x>> \o sorted

RECURSIVE SortedByCount(_)
SortedByCount(items) ==
  IF items = <<>> THEN <<>>
  ELSE InsertByCount(SortedByCount(SubSeq(items, 1, Len(items) - 1)), items[Len(items)])

\* Counter.most_common(n): the items by descending count, equal counts in
\* insertion order, cut to n
MostCommon(c, n) ==
  LET items == [i \in 1..Len(c.order) |-> [key |-> c.order[i], count |-> c.n[i]]]
      sorted == SortedByCount(items)
  IN SubSeq(sorted, 1, IF Len(sorted) < n THEN Len(sorted) ELSE n)

\* the 5 of most_common(5)
TopN == 5

\* top_languages
TopLanguages(languages) ==
  LET top == MostCommon(languages, TopN) IN [i \in 1..Len(top) |-> top[i].key]

(* ------------------------------------------------------------------ *)
(* Activity                                                            *)
(* ------------------------------------------------------------------ *)
\* peak_hour: the hour of most_common(1), "N/A" (here -1) without commits
PeakHour(hourly_distribution) ==
  IF hourly_distribution.order = <<>> THEN -1
  ELSE MostCommon(hourly_distribution, 1)[1].key

\* the sum of the counts of the hours of [lo, hi)
SegmentCount(hourly_distribution, lo, hi) ==
  SumSeq([i \in 1..Len(hourly_distribution.order) |->
            IF lo <= hourly_distribution.order[i] /\ hourly_distribution.order[i] < hi
            THEN hourly_distribution.n[i] ELSE 0])

\* activity_segments
ActivitySegments(hourly_distribution) ==
  [EarlyBird |-> SegmentCount(hourly_distribution, 0, 6),
   Morning |-> SegmentCount(hourly_distribution, 6, 12),
   Afternoon |-> SegmentCount(hourly_distribution, 12, 18),
   LateNight |-> SegmentCount(hourly_distribution, 18, 24)]

(* ------------------------------------------------------------------ *)
(* Working trees                                                       *)
(* ------------------------------------------------------------------ *)
File(name, size, stat_ok) == [name |-> name, size |-> size, stat_ok |-> stat_ok]
Dir(name, files, dirs) == [name |-> name, node |-> [files |-> files, dirs |-> dirs]]

\* the files one more entry of a directory can be: lock files in two
\* spellings, an upper-case extension, a file named Dockerfile, a file whose
\* size cannot be read, an empty file, an unrecognized file
ExtraFiles ==
  { File("package-lock.json", 900, TRUE), File("Package-Lock.json", 900, TRUE),
    File("index.JS", 300, TRUE), File("Dockerfile", 50, TRUE),
    File("x.ts", 2000, TRUE), File("big.rs", 5000, FALSE),
    File("empty.html", 0, TRUE), File("Cargo.lock", 100, TRUE) }

\* where an extra file is put
ExtraPlaces == {"src", "node_modules"}

\* a repository with a 1000-byte .py file and a 500-byte .go file in src, two
\* 300-byte files at the top, a build directory inside src and a large
\* node_modules subtree; extra is a sequence of [place, file]
TreeWith(extra) ==
  LET at(place) == LET here == SelectSeq(extra, LAMBDA x : x.place = place)
                   IN [i \in 1..Len(here) |-> here[i].file]
  IN [files |-> <<File("README.md", 300, TRUE), File("site.css", 300, TRUE)>>,
      dirs |-> << Dir(".git", <<File("main.py", 7000, TRUE)>>, <<>>),
                  Dir("node_modules",
                      <<File("bundle.js", 9000, TRUE)>> \o at("node_modules"),
                      <<Dir("src", <<File("out.js", 9000, TRUE)>>, <<>>)>>),
                  Dir("src",
                      <<File("main.py", 1000, TRUE), File("app.go", 500, TRUE)>> \o at("src"),
                      <<Dir("build", <<File("out.js", 8000, TRUE)>>, <<>>)>>) >>]

(* ------------------------------------------------------------------ *)
(* get_stats                                                           *)
(* ------------------------------------------------------------------ *)
VARIABLES
  is_git_repo,          \* whether repo_path holds a .git
  git_dates,            \* what `git log --all --format=%aI` does: [rc, stdout]
  git_shortlog,         \* what `git shortlog -sne --all` does
  git_shortstat,        \* what `git log --all --shortstat --format=` does
  tree,                 \* the working tree under repo_path
  github_avatar_cache,  \* self.github_avatar_cache
  lookups,              \* the emails searched on GitHub, in order
  stats,                \* what get_stats returned
  pc,                   \* "ready", then "done"
  calls,                \* the calls of _get_github_avatar so far
  scan_root,            \* os.path.abspath(root_dir)
  scan_tree,            \* the directories beneath it
  repos,                \* what scan_for_repos returned
  visited,              \* the directories os.walk went through
  scan_pc,              \* "ready", then "done"
  argv,                 \* the parsed arguments of main
  env,                  \* what main meets: the answer typed, the repositories, the registry
  console,              \* what main printed
  rendered,             \* the number of calls of DashboardRenderer.render
  opened,               \* what main opened in the browser
  exit                  \* how main ended

statsVars ==
  <<is_git_repo, git_dates, git_shortlog, git_shortstat, tree, stats, pc>>
cacheVars == <<github_avatar_cache, lookups>>
avatarVars == <<calls>>
scanVars == <<scan_root, scan_tree, repos, visited, scan_pc>>
mainVars == <<argv, env, console, rendered, opened, exit>>
vars == <<statsVars, cacheVars, avatarVars, scanVars, mainVars>>

EmptyCache == [e \in {} |-> <<>>]

\* the shape of the record get_stats returns.  outcome is "returned",
\* "none" (get_stats returned None) or "raised" (an exception left it)
NoStats(outcome) ==
  [outcome |-> outcome, total_commits |-> 0, lines_added |-> 0, lines_deleted |-> 0,
   estimated_seconds |-> 0, estimated_hours |-> 0, first_commit |-> "N/A", last_commit |-> "N/A",
   peak_hour |-> -1, top_languages |-> <<>>, languages |-> EmptyCounter,
   heatmap |-> EmptyCounter,
   activity_pulse |-> [EarlyBird |-> 0, Morning |-> 0, Afternoon |-> 0, LateNight |-> 0],
   hourly_distribution |-> EmptyCounter, contributors |-> <<>>]

\* no call of _get_github_avatar from outside get_stats
IdleAvatar == calls = <<>>

\* no scan
IdleScan ==
  /\ scan_root = <<"/">>
  /\ scan_tree = {<<>>}
  /\ repos = <<>>
  /\ visited = <<>>
  /\ scan_pc = "idle"

\* no run of main
IdleMain ==
  /\ argv = [local |-> FALSE, no_open |-> FALSE, scan |-> FALSE]
  /\ env = [confirm |-> "y", is_git_repo |-> FALSE, stats |-> FALSE, scan_stats |-> <<>>,
            publish |-> [raises |-> TRUE, status_code |-> 0, json |-> "invalid"]]
  /\ console = <<>>
  /\ rendered = 0
  /\ opened = <<>>
  /\ exit = "idle"

\* no call of get_stats
IdleStats ==
  /\ is_git_repo = FALSE
  /\ git_dates = [rc |-> 0, stdout |-> <<>>]
  /\ git_shortlog = [rc |-> 0, stdout |-> <<>>]
  /\ git_shortstat = [rc |-> 0, stdout |-> <<>>]
  /\ tree = [files |-> <<>>, dirs |-> <<>>]
  /\ stats = NoStats("none")
  /\ pc = "idle"

\* get_stats after the contributors: c is what the shortlog loop left
StatsRecord(commit_dates_raw, shortstat_raw, working_tree, c) ==
  LET dates == DateCounters(commit_dates_raw)
      churn == Churn(shortstat_raw)
      languages == WalkTree(working_tree, EmptyCounter)
  IN [outcome |-> "returned",
      total_commits |-> CounterTotal(dates.heatmap_data),
      lines_added |-> churn.lines_added,
      lines_deleted |-> churn.lines_deleted,
      estimated_seconds |-> EstimatedSeconds(commit_dates_raw),
      estimated_hours |-> RoundTenths(EstimatedHours(commit_dates_raw)),
      first_commit |-> FirstDate(dates.heatmap_data),
      last_commit |-> LastDate(dates.heatmap_data),
      peak_hour |-> PeakHour(dates.hourly_distribution),
      top_languages |-> TopLanguages(languages),
      languages |-> languages,
      heatmap |-> dates.heatmap_data,
      activity_pulse |-> ActivitySegments(dates.hourly_distribution),
      hourly_distribution |-> dates.hourly_distribution,
      contributors |-> SortContributors(c.contributors)]

\* get_stats(): responses[k] is what the GitHub search does when the k-th
\* line of the shortlog asks it
GetStats ==
  /\ pc = "ready"
  /\ pc' = "done"
  /\ IF ~is_git_repo
     THEN /\ stats' = NoStats("none")
          /\ UNCHANGED <<github_avatar_cache, lookups>>
     ELSE \E responses \in [AvatarCalls(RunGit(git_shortlog)) -> Responses] :
            LET c == Contributors(RunGit(git_shortlog), responses, github_avatar_cache)
            IN /\ github_avatar_cache' = c.cache
               /\ lookups' = lookups \o c.lookups
               /\ stats' = IF c.raised THEN NoStats("raised")
                           ELSE StatsRecord(RunGit(git_dates), RunGit(git_shortstat),
                                            tree, c)
  /\ UNCHANGED <<is_git_repo, git_dates, git_shortlog, git_shortstat, tree>>
  /\ UNCHANGED <<avatarVars, scanVars, mainVars>>

\* what a git command does: it fails, or prints some lines
GitOutputs(lines) ==
  {[rc |-> 1, stdout |-> <<>>]}
    \cup {[rc |-> 0, stdout |-> Join(ls, NL)] : ls \in SeqUpTo(lines, MaxLines)}

Silent == [rc |-> 0, stdout |-> <<>>]

\* the number of extra files of a tree
MaxExtra == 2

\* an analyzer just constructed, on a repository in which one of the four
\* things get_stats reads is drawn and the others are plain
Init ==
  /\ github_avatar_cache = EmptyCache
  /\ lookups = <<>>
  /\ stats = NoStats("none")
  /\ pc = "ready"
  /\ IdleAvatar /\ IdleScan /\ IdleMain
  /\ \/ /\ is_git_repo = TRUE
        /\ git_dates \in GitOutputs(DateLines)
        /\ git_shortlog = Silent /\ git_shortstat = Silent /\ tree = TreeWith(<<>>)
     \/ /\ is_git_repo = TRUE
        /\ git_shortlog \in GitOutputs(ShortlogLines)
        /\ git_dates = Silent /\ git_shortstat = Silent /\ tree = TreeWith(<<>>)
     \/ /\ is_git_repo \in BOOLEAN
        /\ git_shortstat \in GitOutputs(ShortstatLines)
        /\ git_dates = Silent /\ git_shortlog = Silent /\ tree = TreeWith(<<>>)
     \/ /\ is_git_repo = TRUE
        /\ tree \in {TreeWith(x) :
                       x \in SeqUpTo([place : ExtraPlaces, file : ExtraFiles], MaxExtra)}
        /\ git_dates = Silent /\ git_shortlog = Silent /\ git_shortstat = Silent

Next == GetStats

Spec == Init /\ [][Next]_vars

(* ------------------------------------------------------------------ *)
(* Properties of get_stats                                             *)
(* ------------------------------------------------------------------ *)
Returned == pc = "done" /\ stats.outcome = "returned"

\* the lines of the text the history query returned
DateLinesReturned ==
  IF Truthy(RunGit(git_dates)) THEN Split(RunGit(git_dates), NL) ELSE <<>>

\* the positions of the lines that are one ISO timestamp
ParseablePositions ==
  {i \in 1..Len(DateLinesReturned) :
     Len(DateLinesReturned[i]) = 1 /\ DateLinesReturned[i][1] \in DOMAIN IsoTable}

\* C1: in the record get_stats returns, total_commits, the sum of the
\* per-day counts and the sum of the per-hour counts are one number, the
\* number of parseable lines of the text the history query returned
C1_CountsAgree ==
  Returned =>
    /\ stats.total_commits = Cardinality(ParseablePositions)
    /\ CounterTotal(stats.heatmap) = stats.total_commits
    /\ CounterTotal(stats.hourly_distribution) = stats.total_commits

\* a returned record for a text with parseable lines on two days, a blank
\* line or an unparseable one among them
C1_Witness ==
  /\ Returned
  /\ stats.total_commits >= 2
  /\ Len(stats.heatmap.order) = 2
  /\ Cardinality(ParseablePositions) < Len(DateLinesReturned)

\* the instants of the parseable lines in chronological order.  The place
\* of a line is one more than the number of lines that are earlier, or as
\* early and before it in the text
Chronological ==
  LET lines == DateLinesReturned
      parseable == {i \in 1..Len(lines) : Len(lines[i]) = 1 /\ lines[i][1] \in DOMAIN IsoTable}
      instant == [i \in parseable |-> Instant(IsoTable[lines[i][1]])]
      rank == [i \in parseable |->
                 1 + Cardinality({j \in parseable :
                                    \/ instant[j] < instant[i]
                                    \/ instant[j] = instant[i] /\ j < i})]
  IN [k \in 1..Cardinality(parseable) |-> instant[CHOOSE i \in parseable : rank[i] = k]]

\* 0 without timestamps; else 0.5 h, plus for each consecutive pair the gap
\* when it is below 2 h and 0.5 h when it is not (in seconds)
ClaimedSeconds ==
  LET chronological == Chronological
  IN IF chronological = <<>> THEN 0
     ELSE 1800 + SumSeq([i \in 1..(Len(chronological) - 1) |->
                           LET gap == chronological[i + 1] - chronological[i]
                           IN IF gap < 7200 THEN gap ELSE 1800])

\* C2: the estimate before rounding is 0 without timestamps and else 0.5 h
\* plus, for each consecutive pair in chronological order, the gap when it
\* is strictly below 2 h and 0.5 h when it is 2 h or more; so 0.5 h for one
\* commit, and 0.5 + 0.5 h for two commits 3 hours apart
C2_SessionEstimate ==
  Returned =>
    /\ stats.estimated_seconds = ClaimedSeconds
    /\ DateLinesReturned = << <<"2024-03-01T09:00:00+00:00">> >>
         => stats.estimated_seconds = 1800
    /\ DateLinesReturned = << <<"2024-03-01T09:00:00+00:00">>, <<"2024-03-01T12:00:00+00:00">> >>
         => stats.estimated_seconds = 1800 + 1800

\* two commits 90 minutes apart, the later one first in the text: 0.5 + 1.5 h
C2_Witness ==
  /\ Returned
  /\ DateLinesReturned = << <<"2024-03-01T10:30:00+00:00">>, <<"2024-03-01T09:00:00+00:00">> >>
  /\ stats.estimated_seconds = 1800 + 5400

\* the text with one more commit line
WithCommit(t) ==
  IF DateLinesReturned = <<>> THEN <<t>> ELSE RunGit(git_dates) \o <<NL, t>>

\* C3: with one more commit, whatever its time, the estimated_hours that
\* get_stats returns is not smaller
C3_Monotonic ==
  Returned /\ git_dates.rc = 0 =>
    \A t \in DOMAIN IsoTable :
      RoundTenths(EstimatedHours(WithCommit(t))) >= stats.estimated_hours

\* the same in exact arithmetic: the sum of the loop, taken in the reals,
\* does not get smaller with one more commit
HoursMonotoneExact ==
  Returned /\ git_dates.rc = 0 =>
    \A t \in DOMAIN IsoTable : EstimatedSeconds(WithCommit(t)) >= stats.estimated_seconds

\* the lines of the shortlog text
ShortlogReturned ==
  IF Truthy(RunGit(git_shortlog)) THEN Split(RunGit(git_shortlog), NL) ELSE <<>>

\* a line of two tab-separated fields
TwoFields(line) == Len(Split(Strip(line), TAB)) = 2

\* a well-formed shortlog line: a count that is an integer, a tab, an identity
WellFormedShortlog(line) ==
  TwoFields(line) /\ ParseInt(Strip(Split(Strip(line), TAB)[1])).ok

WellFormedPositions ==
  {i \in 1..Len(ShortlogReturned) : WellFormedShortlog(ShortlogReturned[i])}

\* C6: a malformed line of a textual parse step is skipped: get_stats does
\* not raise, the line adds nothing, and the lines after it still count.
\* This includes a shortlog line whose count is not an integer
C6_ParseSkip ==
  pc = "done" /\ is_git_repo =>
    /\ stats.outcome = "returned"
    /\ Len(stats.contributors) = Cardinality(WellFormedPositions)
    /\ stats.total_commits = Cardinality(ParseablePositions)

\* the count and the identity of the shortlog line at position i
CountAt(i) == ParseInt(Strip(Split(Strip(ShortlogReturned[i]), TAB)[1])).value
IdentityAt(i) == Strip(Split(Strip(ShortlogReturned[i]), TAB)[2])

\* C7: contributors is in descending order of commits, contributors with
\* equal commits in the order of their shortlog lines, one entry for each
\* well-formed line
C7_Ranking ==
  Returned =>
    /\ Len(stats.contributors) = Cardinality(WellFormedPositions)
    /\ \E at \in [1..Len(stats.contributors) -> WellFormedPositions] :
         /\ \A i, j \in DOMAIN at : i # j => at[i] # at[j]
         /\ \A i \in DOMAIN at :
              /\ stats.contributors[i].commits = CountAt(at[i])
              /\ stats.contributors[i].name = NameOf(IdentityAt(at[i]))
              /\ stats.contributors[i].email = EmailOf(IdentityAt(at[i]))
         /\ \A i, j \in DOMAIN at :
              i < j => \/ CountAt(at[i]) > CountAt(at[j])
                       \/ CountAt(at[i]) = CountAt(at[j]) /\ at[i] < at[j]
    /\ ShortlogReturned = << <<"3", TAB, "Alice", SP, "<", "a@x.com", ">">>,
                             <<"5", TAB, "Bob", SP, "<", "b@x.com", ">">> >>
         => /\ stats.contributors[1].name = <<"Bob">> /\ stats.contributors[1].commits = 5
            /\ stats.contributors[2].name = <<"Alice">> /\ stats.contributors[2].commits = 3

\* a ranking that moved a later line up and kept two equal counts in order
C7_Witness ==
  /\ Returned
  /\ Len(stats.contributors) = 3
  /\ CountAt(1) = 3 /\ CountAt(2) = 3 /\ CountAt(3) = 5
  /\ stats.contributors[1].commits = 5
  /\ stats.contributors[2].name = NameOf(IdentityAt(1))
  /\ stats.contributors[2].name # stats.contributors[3].name

RECURSIVE EntriesOf(_, _)
RECURSIVE EntriesOfDirs(_, _)
\* every file of a tree with the names of the directories above it, the
\* files of a directory before those of its subdirectories
EntriesOf(node, path) ==
  [i \in 1..Len(node.files) |-> [path |-> path, file |-> node.files[i]]]
    \o EntriesOfDirs(node.dirs, path)

EntriesOfDirs(dirs, path) ==
  IF dirs = <<>> THEN <<>>
  ELSE EntriesOf(Head(dirs).node, Append(path, Head(dirs).name))
         \o EntriesOfDirs(Tail(dirs), path)

TreeEntries == EntriesOf(tree, <<>>)

\* a file beneath a directory whose name is in the excluded set
BeneathExcluded(e) == \E i \in 1..Len(e.path) : e.path[i] \in IGNORE_DIRS

\* the positions of the files that count, Skip saying which file names
\* are lock files
CountedPositions(entries, Skip(_)) ==
  {i \in 1..Len(entries) :
     /\ ~BeneathExcluded(entries[i])
     /\ ~Skip(entries[i].file.name)
     /\ LangOf(entries[i].file.name) # ""}

RECURSIVE SumOver(_, _)
SumOver(S, f) ==
  IF S = {} THEN 0 ELSE LET x == CHOOSE y \in S : TRUE IN f[x] + SumOver(S \ {x}, f)

\* the weight of each label that has a file: the sum of Weight over its files
Weights(Weight(_), Skip(_)) ==
  LET entries == TreeEntries
      counted == CountedPositions(entries, Skip)
      label == [i \in counted |-> LangOf(entries[i].file.name)]
      w == [i \in counted |-> Weight(entries[i].file)]
  IN [l \in {label[i] : i \in counted} |-> SumOver({i \in counted : label[i] = l}, w)]

\* the position of the first file of each label that has a file
Firsts(Skip(_)) ==
  LET entries == TreeEntries
      counted == CountedPositions(entries, Skip)
      label == [i \in counted |-> LangOf(entries[i].file.name)]
  IN [l \in {label[i] : i \in counted} |->
        CHOOSE i \in counted :
          label[i] = l /\ \A j \in counted : label[j] = l => i <= j]

\* label a is ranked before label b: more weight, or the same weight and
\* added to the tally first
RankedBefore(a, b, w, first) ==
  w[a] > w[b] \/ (w[a] = w[b] /\ first[a] < first[b])

\* top is the list of the at most 5 labels of most weight, in rank order
IsTopList(top, Weight(_), Skip(_)) ==
  LET w == Weights(Weight, Skip)
      first == Firsts(Skip)
      present == DOMAIN w
  IN /\ Len(top) = IF Cardinality(present) < 5 THEN Cardinality(present) ELSE 5
     /\ \A i \in 1..Len(top) : top[i] \in present
     /\ \A i, j \in 1..Len(top) : i < j => RankedBefore(top[i], top[j], w, first)
     /\ \A l \in present :
          (\A i \in 1..Len(top) : top[i] # l)
            => \A i \in 1..Len(top) : RankedBefore(top[i], l, w, first)

\* the tally holds the weight of each label that has a file, and no other
IsTally(languages, Weight(_), Skip(_)) ==
  LET w == Weights(Weight, Skip)
  IN /\ Len(languages.order) = Cardinality(DOMAIN w)
     /\ \A l \in DOMAIN w : CounterGet(languages, l) = w[l]

ByteSize(file) == file.size
SizeOrOne(file) == IF file.stat_ok THEN file.size ELSE 1
ExactLockName(name) == name \in IGNORE_FILES
LowerLockName(name) == LowerToken(name) \in IGNORE_FILES

\* C8 as stated: top_languages is the list of the at most 5 labels by
\* descending weight, ties by first insertion, the weight of a label the sum
\* of the byte sizes of its files outside the excluded directories
C8_ByteSizes == Returned => IsTopList(stats.top_languages, ByteSize, ExactLockName)

\* C8, amended: the same with a file whose size cannot be read weighing 1;
\* and the tally holds exactly these weights
C8_TopLanguages ==
  Returned =>
    /\ IsTopList(stats.top_languages, SizeOrOne, ExactLockName)
    /\ IsTally(stats.languages, SizeOrOne, ExactLockName)
    /\ tree = TreeWith(<<>>) => stats.top_languages = <<"Python", "Go", "Markdown", "CSS">>

\* a tree with six labels, two of them of equal weight, a label in the
\* excluded subtree only among the files, and a file whose size cannot be read
C8_Witness ==
  /\ Returned
  /\ Len(stats.languages.order) >= 6
  /\ Len(stats.top_languages) = 5
  /\ \E i \in 1..Len(TreeEntries) :
       BeneathExcluded(TreeEntries[i]) /\ LangOf(TreeEntries[i].file.name) = "JavaScript"
  /\ \E i \in 1..Len(TreeEntries) :
       ~BeneathExcluded(TreeEntries[i]) /\ ~TreeEntries[i].file.stat_ok
  /\ CounterGet(stats.languages, "Markdown") = CounterGet(stats.languages, "CSS")

\* C10: a file of a visited directory whose lowercased name is in the
\* lock-file set adds nothing to any language, whatever its letter case
C10_LockFiles ==
  Returned => IsTally(stats.languages, SizeOrOne, LowerLockName)

(* ------------------------------------------------------------------ *)
(* _get_github_avatar, call by call                                    *)
(* ------------------------------------------------------------------ *)
\* the calls of one analyzer
MaxCalls == 4

\* the emails asked for: two that differ in letter case only, and the
\* empty email of a contributor without one
Emails == {<<"a@x.com">>, <<"A@x.com">>, <<>>}

\* self._get_github_avatar(email)
GetGithubAvatar(email, response) ==
  /\ Len(calls) < MaxCalls
  /\ LET got == GetGithubAvatarOn(github_avatar_cache, email, response)
     IN /\ github_avatar_cache' = got.cache
        /\ lookups' = IF got.looked_up THEN Append(lookups, email) ELSE lookups
        /\ calls' = Append(calls, [email |-> email, response |-> response,
                                   avatar |-> got.avatar])
  /\ UNCHANGED <<statsVars, scanVars, mainVars>>

InitAvatar ==
  /\ github_avatar_cache = EmptyCache
  /\ lookups = <<>>
  /\ calls = <<>>
  /\ IdleStats /\ IdleScan /\ IdleMain

NextAvatar == \E email \in Emails, response \in Responses : GetGithubAvatar(email, response)

SpecAvatar == InitAvatar /\ [][NextAvatar]_vars

\* the number of searches for an email, and the first call for it
SearchesFor(email) == Cardinality({i \in 1..Len(lookups) : lookups[i] = email})
FirstCall(email) ==
  CHOOSE i \in 1..Len(calls) :
    calls[i].email = email /\ \A j \in 1..(i - 1) : calls[j].email # email

\* C4: each email that was asked for was searched exactly once, at its first
\* call; what that call returned (the avatar found, or the fallback when the
\* search failed or found nobody) is in the cache, and every call for the
\* email returned it, whatever the search would answer by then; so an entry
\* of the cache never changes and never goes
C4_CacheOnce ==
  /\ DOMAIN github_avatar_cache = {calls[i].email : i \in 1..Len(calls)}
  /\ \A email \in Emails :
       SearchesFor(email) = IF email \in DOMAIN github_avatar_cache THEN 1 ELSE 0
  /\ \A email \in DOMAIN github_avatar_cache :
       LET first == calls[FirstCall(email)]
       IN /\ first.avatar = IF first.response \in GithubAvatars THEN first.response
                            ELSE <<"gravatar", Lower(email)>>
          /\ github_avatar_cache[email] = first.avatar
          /\ \A i \in 1..Len(calls) : calls[i].email = email => calls[i].avatar = first.avatar

\* an email whose first search failed and that was asked for again when
\* GitHub had an avatar for it: the fallback came back
C4_Witness ==
  \E i, j \in 1..Len(calls) :
    /\ i < j
    /\ calls[i].email = calls[j].email
    /\ calls[i].response = SearchError
    /\ calls[j].response \in GithubAvatars
    /\ calls[j].avatar = Gravatar(calls[j].email)
    /\ SearchesFor(calls[j].email) = 1

(* ------------------------------------------------------------------ *)
(* scan_for_repos                                                      *)
(* ------------------------------------------------------------------ *)
\* Paths are strings of one-character tokens: the separator and directory
\* names of one character, so that str.replace and str.count act on the
\* tokens as they act on the characters.  ".git" stands for its four
\* characters; no root of the model occurs inside it.
SEP == "/"
GIT == ".git"

\* the default of max_depth
MaxDepth == 3

\* the longest chain of nested directories below the root
MaxChain == 5

\* the working directory of the process
Cwd == <<SEP, "r">>

\* os.path.abspath on the roots of the model: "." is the working directory,
\* trailing separators go, "/" stays
RECURSIVE Abspath(_)
Abspath(path) ==
  IF path = <<".">> THEN Cwd
  ELSE IF Len(path) > 1 /\ path[Len(path)] = SEP THEN Abspath(SubSeq(path, 1, Len(path) - 1))
  ELSE path

\* os.path.join(a, b) for a relative b
PathJoin(a, b) == IF a[Len(a)] = SEP THEN a \o <<b>> ELSE a \o <<SEP, b>>

\* s.startswith(pat)
StartsWith(s, pat) == Len(pat) <= Len(s) /\ SubSeq(s, 1, Len(pat)) = pat

RECURSIVE ReplaceAll(_, _)
\* s.replace(pat, ''): the occurrences of pat, left to right, are cut out
ReplaceAll(s, pat) ==
  IF s = <<>> THEN <<>>
  ELSE IF StartsWith(s, pat) THEN ReplaceAll(SubSeq(s, Len(pat) + 1, Len(s)), pat)
  ELSE <<Head(s)>> \o ReplaceAll(Tail(s), pat)

\* s.count(x)
Count(s, x) == Cardinality({i \in 1..Len(s) : s[i] = x})

\* A directory tree is the set of its directories, each the sequence of
\* names that leads to it from the root of the walk.
\* the order in which a directory lists its entries
Listing == <<GIT, "a", "b", "o">>

\* dirnames of os.walk: the subdirectories of the directory at rel
DirNames(dirs, rel) ==
  SelectSeq(Listing, LAMBDA name : Append(rel, name) \in dirs)

RECURSIVE DirPath(_, _)
\* dirpath of os.walk: the names joined to the top one by one
DirPath(top, rel) ==
  IF rel = <<>> THEN top
  ELSE PathJoin(DirPath(top, SubSeq(rel, 1, Len(rel) - 1)), rel[Len(rel)])

\* the descent stops at the depth limit
DepthOf(dirpath, root_dir) == Count(ReplaceAll(dirpath, root_dir), SEP)

\* what is left of dirnames after the body of the loop, given that ".git"
\* has been removed already
Descend(dirnames, dirpath, root_dir, rel, max_depth) ==
  IF DepthOf(dirpath, root_dir) >= max_depth THEN <<>> ELSE dirnames

RECURSIVE Walk(_, _, _, _, _)
\* the loop over os.walk(root_dir), top-down and depth first: todo holds the
\* directories still to visit, acc what the loop has done so far
Walk(dirs, root_dir, max_depth, todo, acc) ==
  IF todo = <<>> THEN acc
  ELSE LET rel == Head(todo)
           dirpath == DirPath(root_dir, rel)
           dirnames == DirNames(dirs, rel)
           found == \E i \in 1..Len(dirnames) : dirnames[i] = GIT
           kept == SelectSeq(dirnames, LAMBDA name : name # GIT)
           left == Descend(kept, dirpath, root_dir, rel, max_depth)
           below == [i \in 1..Len(left) |-> Append(rel, left[i])]
       IN Walk(dirs, root_dir, max_depth, below \o Tail(todo),
               [repos |-> IF found THEN Append(acc.repos, dirpath) ELSE acc.repos,
                visited |-> Append(acc.visited, rel)])

\* GitAnalyzer.scan_for_repos(root_dir), max_depth at its default
ScanForRepos ==
  /\ scan_pc = "ready"
  /\ LET done == Walk(scan_tree, Abspath(scan_root), MaxDepth, <<<<>>>>,
                      [repos |-> <<>>, visited |-> <<>>])
     IN /\ repos' = done.repos
        /\ visited' = done.visited
  /\ scan_pc' = "done"
  /\ UNCHANGED <<scan_root, scan_tree, statsVars, cacheVars, avatarVars, mainVars>>

\* the roots: the file system root, a directory whose name is also a name
\* used below it, one whose name is not, the same with a trailing
\* separator, and the working directory
ScanRoots == {<<SEP>>, <<SEP, "a">>, <<SEP, "r">>, <<SEP, "r", SEP>>, <<".">>}

\* a chain of nested directories, and the levels of it that are
\* repositories: each has a .git directory with a directory in it
ChainTree(chain, gits) ==
  {SubSeq(chain, 1, k) : k \in 0..Len(chain)}
    \cup {Append(SubSeq(chain, 1, k), GIT) : k \in gits}
    \cup {SubSeq(chain, 1, k) \o <<GIT, "o">> : k \in gits}

InitScan ==
  /\ scan_root \in ScanRoots
  /\ \E chain \in SeqUpTo({"a", "b"}, MaxChain) :
       \E gits \in SUBSET (0..Len(chain)) : scan_tree = ChainTree(chain, gits)
  /\ repos = <<>>
  /\ visited = <<>>
  /\ scan_pc = "ready"
  /\ github_avatar_cache = EmptyCache
  /\ lookups = <<>>
  /\ IdleStats /\ IdleAvatar /\ IdleMain

NextScan == ScanForRepos

SpecScan == InitScan /\ [][NextScan]_vars

\* the number of path components of a path
Components(path) == Count(path, "a") + Count(path, "b") + Count(path, "r")
                      + Count(path, "o") + Count(path, GIT)

\* how far below the root a returned repository lies
RepoLevel(repo) == Components(repo) - Components(Abspath(scan_root))

\* C5: after the scan, no visited directory is or lies in a .git directory,
\* none lies more than max_depth components below the root, and no
\* returned repository does
C5_DepthLimit ==
  scan_pc = "done" =>
    /\ \A i \in 1..Len(visited) :
         ~Contains(visited[i], GIT) /\ Len(visited[i]) <= MaxDepth
    /\ \A i \in 1..Len(repos) : RepoLevel(repos[i]) <= MaxDepth

(* ------------------------------------------------------------------ *)
(* main                                                                *)
(* ------------------------------------------------------------------ *)
\* DashboardRenderer(all_stats).render(): it writes the dashboard and
\* returns the path of the file
Render(all_stats) == <<"file://", "dashboard.html">>

\* what the publishing endpoint does to requests.post: the call raises
\* (no network, timeout), or it answers with a status and a body that is
\* JSON with a url or is not
PublishOutcomes ==
  {[raises |-> TRUE, status_code |-> 0, json |-> "invalid"]}
    \cup [raises : {FALSE}, status_code : {200}, json : {"url", "invalid"}]
    \cup [raises : {FALSE}, status_code : {201, 404, 500}, json : {"invalid"}]

\* str.lower() of the answers to the confirmation
LowerAnswer(a) == IF a = "Y" THEN "y" ELSE a

\* the stats gathered: those of the repositories whose get_stats returned
\* a record
Gathered(results) == SelectSeq(results, LAMBDA ok : ok)

\* the publishing block of main: [console, rendered, opened]
Publish(all_stats, out) ==
  LET started == Append(out.console, "synchronizing")
  IN IF env.publish.raises \/ (env.publish.status_code = 200 /\ env.publish.json # "url")
     THEN [console |-> started \o <<"cloud sync failed", "trying fallback", "fallback dashboard">>,
           rendered |-> out.rendered + 1,
           opened |-> IF argv.no_open THEN out.opened
                      ELSE Append(out.opened, Render(all_stats))]
     ELSE IF env.publish.status_code = 200
     THEN [console |-> IF argv.no_open THEN Append(started, "published")
                       ELSE started \o <<"published", "opening cloud">>,
           rendered |-> out.rendered,
           opened |-> IF argv.no_open THEN out.opened
                      ELSE Append(out.opened, <<"published_url">>)]
     ELSE [console |-> Append(started, "failed to publish"),
           rendered |-> out.rendered, opened |-> out.opened]

\* the local block of main
RenderLocal(all_stats, out) ==
  [console |-> out.console \o <<"generated", "location">>,
   rendered |-> out.rendered + 1,
   opened |-> IF argv.no_open THEN out.opened ELSE Append(out.opened, Render(all_stats))]

\* main(): the whole run, to its return or its sys.exit
Main ==
  /\ exit = "ready"
  /\ LET start == [console |-> <<>>, rendered |-> 0, opened |-> <<>>]
         cancelled == argv.local /\ LowerAnswer(env.confirm) # "y"
         not_repo == ~argv.scan /\ ~env.is_git_repo
         all_stats == IF argv.scan THEN Gathered(env.scan_stats)
                      ELSE Gathered(<<env.stats>>)
         gathering == IF argv.scan THEN <<"scanning", "found">> ELSE <<>>
         out == [start EXCEPT !.console = gathering]
         done == IF argv.local THEN RenderLocal(all_stats, out)
                 ELSE Publish(all_stats, out)
     IN IF cancelled
        THEN /\ console' = <<"cancelled">>
             /\ rendered' = 0 /\ opened' = <<>> /\ exit' = "exit 0"
        ELSE IF not_repo
        THEN /\ console' = <<"not a git repository", "tip">>
             /\ rendered' = 0 /\ opened' = <<>> /\ exit' = "exit 1"
        ELSE IF all_stats = <<>>
        THEN /\ console' = Append(gathering, "no statistics")
             /\ rendered' = 0 /\ opened' = <<>> /\ exit' = "exit 0"
        ELSE /\ console' = done.console
             /\ rendered' = done.rendered
             /\ opened' = done.opened
             /\ exit' = "returned"
  /\ UNCHANGED <<argv, env, statsVars, cacheVars, avatarVars, scanVars>>

InitMain ==
  /\ argv \in [local : BOOLEAN, no_open : BOOLEAN, scan : BOOLEAN]
  /\ env \in [confirm : {"y", "Y", "n", ""}, is_git_repo : BOOLEAN, stats : BOOLEAN,
             scan_stats : SeqUpTo(BOOLEAN, 2), publish : PublishOutcomes]
  /\ console = <<>>
  /\ rendered = 0
  /\ opened = <<>>
  /\ exit = "ready"
  /\ github_avatar_cache = EmptyCache
  /\ lookups = <<>>
  /\ IdleStats /\ IdleAvatar /\ IdleScan

NextMain == Main

SpecMain == InitMain /\ [][NextMain]_vars

\* the run tried to publish
Published == Contains(console, "synchronizing")

\* the publish call failed: it raised or the status is not 2xx
PublishFailed ==
  Published /\ (env.publish.raises \/ env.publish.status_code \notin 200..299)

\* C9: when the publish call fails the failure is reported, the dashboard
\* is rendered locally and the process does not crash; a 2xx answer is
\* reported as a success
C9_PublishFallback ==
  exit # "ready" =>
    /\ PublishFailed =>
         /\ Contains(console, "cloud sync failed") \/ Contains(console, "failed to publish")
         /\ rendered >= 1
         /\ exit = "returned"
    /\ (Published /\ ~env.publish.raises /\ env.publish.status_code \in 200..299
          /\ env.publish.json = "url") => Contains(console, "published")

====
